---- MODULE Spec2Model ----
(***************************************************************************)
(* Client-side session gating of the AgentForge front end:                *)
(*   - AuthProvider (context/AuthContext.js): the isAuthenticated flag,    *)
(*     created by useState(false) and derived from localStorage['token']   *)
(*     in a mount effect;                                                  *)
(*   - PrivateRoute (components/PrivateRoute.js): the route guard;         *)
(*   - App (App.js): the route table;                                      *)
(*   - Navbar.handleLogout, Login.handleSubmit, Register.handleSubmit.     *)
(* The browser history is a sequence of paths with a current index.       *)
(* An async handler is split at its await: the submit step and the step    *)
(* that runs when the request settles.                                     *)
(***************************************************************************)
EXTENDS Integers, Sequences, FiniteSets, TLC

\* ---------------------------------------------------------------- bounds
MaxHist == 3        \* longest browser history explored
MaxPending == 1     \* most requests in flight at once, all kinds together
MaxFetches == 2     \* most list fetches of one panel in flight at once
MaxCalls == 1       \* most mutating handler calls awaiting their response

\* ------------------------------------------------------------ vocabulary
HomePath == "/"
LoginPath == "/login"
RegisterPath == "/register"
ProfilePath == "/profile"
GuardedPaths == {"/models", "/teams", "/chat"}
Paths == {HomePath, LoginPath, RegisterPath, ProfilePath} \cup GuardedPaths

\* localStorage.getItem('token') is null (<<>>) or a string (<<s>>)
Null == <<>>
IssuedTokens == {"tok1", "tok2"}

\* the teams the backend returned to fetchTeams, and "no team selected"
TeamIds == {"t1", "t2"}
NoTeam == "none"
\* values of Chat's message input
Contents == {"", "hi"}
\* the mutating handlers of Models and Teams that re-fetch a list on success
ListHandlers == {"handleAddApiKey", "handleCreateTeam"}
\* what a rejected axios call throws: an error carrying the backend's
\* response (4xx / 5xx), or one with error.response undefined (network
\* failure, timeout)
Errors == {"response", "no_response"}
\* no request has read the token yet
NoRead == <<>>
StoredValues == {Null, <<"">>} \cup {<<t>> : t \in IssuedTokens}

NoOutcome == [kind |-> "none", target |-> "none", replace |-> FALSE]

VARIABLES
  storage,          \* localStorage['token']: Null or <<string>>
  isAuthenticated,  \* AuthProvider's useState value
  phase,            \* "unmounted" -> "rendered" -> "ready"
  initCount,        \* runs of AuthProvider's mount effect
  observed,         \* flag value the consumers read in the last render
  hist, idx,        \* browser history and the current entry
  requested,        \* path the last render was asked to show
  reqLen,           \* Len(hist) when that render started
  outcome,          \* what the route element returned for it
  view,             \* path whose view is on screen after the render settled
  loginPending,     \* Login.handleSubmit calls awaiting axios.post
  registerPending,  \* Register.handleSubmit calls awaiting axios.post
  fetchPending,     \* requests of the Models/Teams/Chat views in flight
  sinceLogout,      \* a logout ran and no login has succeeded since
  freshSession,     \* loaded without a credential and no login has succeeded
  lastEvent,        \* the event handled by the last step
  panel,            \* the mounted team panel: "/chat", "/teams" or "none"
  selectedTeamId,   \* its selectedTeamId state
  shownFor,         \* team whose messages / agents its list state holds
  fetches,          \* fetchMessages / fetchAgents calls in flight, per team
  selFailed,        \* a fetch for the selected team failed since its selection
  messageContent,   \* Chat's messageContent state
  sends,            \* handleSendMessage calls awaiting axios.post, per the
                    \* selectedTeamId their closure holds
  calls,            \* handleAddApiKey / handleCreateTeam calls awaiting
  tokenRead,        \* <<getItem('token')>> of the request a panel built last
  handlerResult     \* how the handler call that ended last ended

vars == <<storage, isAuthenticated, phase, initCount, observed, hist, idx,
          requested, reqLen, outcome, view, loginPending, registerPending,
          fetchPending, sinceLogout, freshSession, lastEvent,
          panel, selectedTeamId, shownFor, fetches, selFailed,
          messageContent, sends, calls, tokenRead, handlerResult>>

handlerVars == <<messageContent, sends, calls, tokenRead, handlerResult>>

panelVars == <<panel, selectedTeamId, shownFor, fetches, selFailed,
               handlerVars>>

sessionVars == <<storage, isAuthenticated, phase, initCount, observed, hist,
                 idx, requested, reqLen, outcome, view, loginPending,
                 registerPending, fetchPending, sinceLogout, freshSession>>

\* ------------------------------------------------------- pure operators

\* requests awaiting their response
InFlight == loginPending + registerPending + fetchPending

\* variant: only a missing key counts as "no credential"
Truthy_NullOnly(item) == item # Null

\* variant: token !== undefined, which getItem's null satisfies
Truthy_Always(item) == TRUE

\* !!token  (AuthContext.js:17): null and '' are falsy, other strings truthy
Truthy(item) == item # Null /\ item[1] # ""

HasCredential == Truthy(storage)

\* variant: the guard lets every request through
PrivateRoute_NoGuard(flag, children) ==
  [kind |-> "render", target |-> children, replace |-> FALSE]

\* variant: <Navigate to="/login" /> without replace
PrivateRoute_Push(flag, children) ==
  IF flag THEN [kind |-> "render", target |-> children, replace |-> FALSE]
          ELSE [kind |-> "redirect", target |-> LoginPath, replace |-> FALSE]

\* PrivateRoute: isAuthenticated ? children : <Navigate to="/login" replace />
PrivateRoute(flag, children) ==
  IF flag THEN [kind |-> "render", target |-> children, replace |-> FALSE]
          ELSE [kind |-> "redirect", target |-> LoginPath, replace |-> TRUE]

\* App's <Routes>: the element of the route matching path
Routes(path, flag) ==
  IF path \in GuardedPaths THEN PrivateRoute(flag, path)
  ELSE IF path \in {HomePath, LoginPath, RegisterPath}
       THEN [kind |-> "render", target |-> path, replace |-> FALSE]
       ELSE [kind |-> "nomatch", target |-> "none", replace |-> FALSE]

\* history.push: drop the forward entries, append
Push(h, i, to) == [hist |-> Append(SubSeq(h, 1, i), to), idx |-> i + 1]

\* history.replace: overwrite the current entry
Replace(h, i, to) == [hist |-> [h EXCEPT ![i] = to], idx |-> i]

\* navigate(to, {replace})
NavigateTo(h, i, to, replace) ==
  IF replace THEN Replace(h, i, to) ELSE Push(h, i, to)

\* variant: every link is rendered whatever the flag is
NavbarLinks_All(flag) ==
  {HomePath, "/models", "/teams", "/chat", ProfilePath, LoginPath,
   RegisterPath}

\* Navbar: the link targets it shows for a flag value
NavbarLinks(flag) ==
  IF flag THEN {HomePath, "/models", "/teams", "/chat", ProfilePath}
          ELSE {HomePath, LoginPath, RegisterPath}

\* One render pass of the tree at location h[i] with the given flag,
\* followed by the effect of a rendered <Navigate>.
Render(h, i, flag) ==
  LET out == Routes(h[i], flag)
      loc == IF out.kind = "redirect"
               THEN NavigateTo(h, i, out.target, out.replace)
               ELSE [hist |-> h, idx |-> i]
      fin == Routes(loc.hist[loc.idx], flag)
  IN [hist |-> loc.hist, idx |-> loc.idx,
      requested |-> h[i], reqLen |-> Len(h), outcome |-> out,
      view |-> IF fin.kind = "render" THEN fin.target ELSE "none",
      observed |-> <<flag>>]

\* commit a render into the primed variables
Commit(h, i, flag) ==
  LET r == Render(h, i, flag)
  IN /\ hist' = r.hist
     /\ idx' = r.idx
     /\ requested' = r.requested
     /\ reqLen' = r.reqLen
     /\ outcome' = r.outcome
     /\ view' = r.view
     /\ observed' = r.observed

\* ------------------------------------------------------------------ Init
Init ==
  /\ storage \in StoredValues
  /\ isAuthenticated = FALSE
  /\ phase = "unmounted"
  /\ initCount = 0
  /\ observed = <<>>
  /\ \E p \in Paths : hist = <<p>>
  /\ idx = 1
  /\ requested = "none"
  /\ reqLen = 0
  /\ outcome = NoOutcome
  /\ view = "none"
  /\ loginPending = 0
  /\ registerPending = 0
  /\ fetchPending = 0
  /\ sinceLogout = FALSE
  /\ freshSession = (storage \in {Null, <<"">>})
  /\ lastEvent = "load"
  /\ panel = "none"
  /\ selectedTeamId = NoTeam
  /\ shownFor = NoTeam
  /\ fetches = [t \in TeamIds |-> 0]
  /\ selFailed = FALSE
  /\ messageContent = ""
  /\ sends = [t \in TeamIds |-> 0]
  /\ calls = [h \in ListHandlers |-> 0]
  /\ tokenRead = NoRead
  /\ handlerResult = "none"

\* --------------------------------------------------------------- actions

\* ReactDOM.render: first render of <AuthProvider><App/></AuthProvider>
Mount ==
  /\ phase = "unmounted"
  /\ phase' = "rendered"
  /\ Commit(hist, idx, isAuthenticated)
  /\ lastEvent' = "mount"
  /\ UNCHANGED <<freshSession, panelVars>>
  /\ UNCHANGED <<storage, isAuthenticated, initCount, loginPending,
                 registerPending, sinceLogout,
                 fetchPending>>

\* variant: the provider hands out a context value that is never refreshed
Initialize_StaleContext ==
  /\ phase = "rendered"
  /\ phase' = "ready"
  /\ initCount' = initCount + 1
  /\ isAuthenticated' = Truthy(storage)
  /\ lastEvent' = "initialize"
  /\ UNCHANGED <<freshSession, panelVars>>
  /\ UNCHANGED <<storage, observed, hist, idx, requested, reqLen, outcome,
                 view, loginPending, registerPending, sinceLogout,
                 fetchPending>>

\* AuthProvider's useEffect(..., []): runs after the first render
Initialize ==
  /\ phase = "rendered"
  /\ phase' = "ready"
  /\ initCount' = initCount + 1
  /\ isAuthenticated' = Truthy(storage)
  /\ Commit(hist, idx, isAuthenticated')
  /\ lastEvent' = "initialize"
  /\ UNCHANGED <<freshSession, panelVars>>
  /\ UNCHANGED <<storage, loginPending, registerPending, sinceLogout,
                 fetchPending>>

\* a click on one of the Navbar's <Link>s
NavClick(p) ==
  /\ phase = "ready"
  /\ p \in NavbarLinks(observed[1])
  /\ idx < MaxHist
  /\ LET n == Push(hist, idx, p) IN Commit(n.hist, n.idx, isAuthenticated)
  /\ lastEvent' = "navigate"
  /\ UNCHANGED <<freshSession, panelVars>>
  /\ UNCHANGED <<storage, isAuthenticated, phase, initCount, loginPending,
                 registerPending, sinceLogout,
                 fetchPending>>

\* browser back button
Back ==
  /\ phase = "ready"
  /\ idx > 1
  /\ Commit(hist, idx - 1, isAuthenticated)
  /\ lastEvent' = "back"
  /\ UNCHANGED <<freshSession, panelVars>>
  /\ UNCHANGED <<storage, isAuthenticated, phase, initCount, loginPending,
                 registerPending, sinceLogout,
                 fetchPending>>

\* browser forward button
Forward ==
  /\ phase = "ready"
  /\ idx < Len(hist)
  /\ Commit(hist, idx + 1, isAuthenticated)
  /\ lastEvent' = "forward"
  /\ UNCHANGED <<freshSession, panelVars>>
  /\ UNCHANGED <<storage, isAuthenticated, phase, initCount, loginPending,
                 registerPending, sinceLogout,
                 fetchPending>>

\* Login.handleSubmit up to its await
LoginSubmit ==
  /\ phase = "ready"
  /\ view = LoginPath
  /\ InFlight < MaxPending
  /\ loginPending' = loginPending + 1
  /\ lastEvent' = "login_submit"
  /\ UNCHANGED <<freshSession, panelVars>>
  /\ UNCHANGED <<storage, isAuthenticated, phase, initCount, observed, hist,
                 idx, requested, reqLen, outcome, view, registerPending,
                 sinceLogout,
                 fetchPending>>

\* Login.handleSubmit after the await resolved: setItem, toast, navigate('/')
LoginSuccess(tok) ==
  /\ phase = "ready"
  /\ loginPending > 0
  /\ idx < MaxHist
  /\ loginPending' = loginPending - 1
  /\ storage' = <<tok>>
  /\ LET n == NavigateTo(hist, idx, HomePath, FALSE)
     IN Commit(n.hist, n.idx, isAuthenticated)
  /\ sinceLogout' = FALSE
  /\ lastEvent' = "login_ok"
  /\ freshSession' = FALSE
  /\ UNCHANGED panelVars
  /\ UNCHANGED <<isAuthenticated, phase, initCount, registerPending,
                 fetchPending>>

\* variant: the catch branch also drops the stored token
LoginFailure_ClearsToken ==
  /\ phase = "ready"
  /\ loginPending > 0
  /\ loginPending' = loginPending - 1
  /\ storage' = Null
  /\ lastEvent' = "login_fail"
  /\ UNCHANGED <<freshSession, panelVars>>
  /\ UNCHANGED <<isAuthenticated, phase, initCount, observed, hist,
                 idx, requested, reqLen, outcome, view, registerPending,
                 sinceLogout,
                 fetchPending>>

\* Login.handleSubmit after the await rejected: console.error, toast.error
LoginFailure ==
  /\ phase = "ready"
  /\ loginPending > 0
  /\ loginPending' = loginPending - 1
  /\ lastEvent' = "login_fail"
  /\ UNCHANGED <<freshSession, panelVars>>
  /\ UNCHANGED <<storage, isAuthenticated, phase, initCount, observed, hist,
                 idx, requested, reqLen, outcome, view, registerPending,
                 sinceLogout,
                 fetchPending>>

\* variant: the token is removed but setIsAuthenticated(false) is missing
Logout_KeepsFlag ==
  /\ phase = "ready"
  /\ observed[1]
  /\ storage' = Null
  /\ Commit(hist, idx, isAuthenticated)
  /\ sinceLogout' = TRUE
  /\ lastEvent' = "logout"
  /\ UNCHANGED <<freshSession, panelVars>>
  /\ UNCHANGED <<isAuthenticated, phase, initCount, loginPending,
                 registerPending,
                 fetchPending>>

\* variant: the flag is cleared but removeItem('token') is missing
Logout_KeepsToken ==
  /\ phase = "ready"
  /\ observed[1]
  /\ isAuthenticated' = FALSE
  /\ Commit(hist, idx, isAuthenticated')
  /\ sinceLogout' = TRUE
  /\ lastEvent' = "logout"
  /\ UNCHANGED <<freshSession, panelVars>>
  /\ UNCHANGED <<storage, phase, initCount, loginPending,
                 registerPending,
                 fetchPending>>

\* variant: the re-render of the logout event still uses the old flag value
Logout_StaleRender ==
  /\ phase = "ready"
  /\ observed[1]
  /\ storage' = Null
  /\ isAuthenticated' = FALSE
  /\ Commit(hist, idx, isAuthenticated)
  /\ sinceLogout' = TRUE
  /\ lastEvent' = "logout"
  /\ UNCHANGED <<freshSession, panelVars>>
  /\ UNCHANGED <<phase, initCount, loginPending, registerPending,
                 fetchPending>>

\* Navbar.handleLogout: removeItem('token'); setIsAuthenticated(false)
Logout ==
  /\ phase = "ready"
  /\ observed[1]
  /\ storage' = Null
  /\ isAuthenticated' = FALSE
  /\ Commit(hist, idx, isAuthenticated')
  /\ sinceLogout' = TRUE
  /\ lastEvent' = "logout"
  /\ UNCHANGED <<freshSession, panelVars>>
  /\ UNCHANGED <<phase, initCount, loginPending, registerPending,
                 fetchPending>>

\* Register.handleSubmit up to its await
RegisterSubmit ==
  /\ phase = "ready"
  /\ view = RegisterPath
  /\ InFlight < MaxPending
  /\ registerPending' = registerPending + 1
  /\ lastEvent' = "register_submit"
  /\ UNCHANGED <<freshSession, panelVars>>
  /\ UNCHANGED <<storage, isAuthenticated, phase, initCount, observed, hist,
                 idx, requested, reqLen, outcome, view, loginPending,
                 sinceLogout,
                 fetchPending>>

\* variant: a successful registration also marks the session authenticated
RegisterSuccess_LogsIn ==
  /\ phase = "ready"
  /\ registerPending > 0
  /\ idx < MaxHist
  /\ registerPending' = registerPending - 1
  /\ isAuthenticated' = TRUE
  /\ LET n == NavigateTo(hist, idx, LoginPath, FALSE)
     IN Commit(n.hist, n.idx, isAuthenticated')
  /\ lastEvent' = "register_ok"
  /\ UNCHANGED <<freshSession, panelVars>>
  /\ UNCHANGED <<storage, phase, initCount, loginPending,
                 sinceLogout,
                 fetchPending>>

\* Register.handleSubmit after the await resolved: navigate('/login')
RegisterSuccess ==
  /\ phase = "ready"
  /\ registerPending > 0
  /\ idx < MaxHist
  /\ registerPending' = registerPending - 1
  /\ LET n == NavigateTo(hist, idx, LoginPath, FALSE)
     IN Commit(n.hist, n.idx, isAuthenticated)
  /\ lastEvent' = "register_ok"
  /\ UNCHANGED <<freshSession, panelVars>>
  /\ UNCHANGED <<storage, isAuthenticated, phase, initCount, loginPending,
                 sinceLogout,
                 fetchPending>>

\* Register.handleSubmit after the await rejected: console.error, alert
RegisterFailure ==
  /\ phase = "ready"
  /\ registerPending > 0
  /\ registerPending' = registerPending - 1
  /\ lastEvent' = "register_fail"
  /\ UNCHANGED <<freshSession, panelVars>>
  /\ UNCHANGED <<storage, isAuthenticated, phase, initCount, observed, hist,
                 idx, requested, reqLen, outcome, view, loginPending,
                 sinceLogout,
                 fetchPending>>

\* a request of a guarded view (Models.fetchApiKeys and its like) up to its
\* await: const token = localStorage.getItem('token'); axios.get(..., Bearer)
FetchStart ==
  /\ phase = "ready"
  /\ view \in GuardedPaths
  /\ InFlight < MaxPending
  /\ fetchPending' = fetchPending + 1
  /\ lastEvent' = "fetch_start"
  /\ UNCHANGED <<freshSession, panelVars>>
  /\ UNCHANGED <<storage, isAuthenticated, phase, initCount, observed, hist,
                 idx, requested, reqLen, outcome, view, loginPending,
                 registerPending, sinceLogout>>

\* variant: a failed request also removes the stored token
FetchSettle_ClearsToken(ok) ==
  /\ phase = "ready"
  /\ fetchPending > 0
  /\ fetchPending' = fetchPending - 1
  /\ storage' = IF ok THEN storage ELSE Null
  /\ lastEvent' = IF ok THEN "fetch_ok" ELSE "fetch_fail"
  /\ UNCHANGED <<freshSession, panelVars>>
  /\ UNCHANGED <<isAuthenticated, phase, initCount, observed, hist,
                 idx, requested, reqLen, outcome, view, loginPending,
                 registerPending, sinceLogout>>

\* the same request settling: a local list is set, or the error is logged
FetchSettle(ok) ==
  /\ phase = "ready"
  /\ fetchPending > 0
  /\ fetchPending' = fetchPending - 1
  /\ lastEvent' = IF ok THEN "fetch_ok" ELSE "fetch_fail"
  /\ UNCHANGED <<freshSession, panelVars>>
  /\ UNCHANGED <<storage, isAuthenticated, phase, initCount, observed, hist,
                 idx, requested, reqLen, outcome, view, loginPending,
                 registerPending, sinceLogout>>

Next ==
  \/ Mount
  \/ Initialize
  \/ \E p \in Paths : NavClick(p)
  \/ Back
  \/ Forward
  \/ LoginSubmit
  \/ \E tok \in IssuedTokens : LoginSuccess(tok)
  \/ LoginFailure
  \/ Logout
  \/ RegisterSubmit
  \/ RegisterSuccess
  \/ RegisterFailure
  \/ FetchStart
  \/ \E ok \in BOOLEAN : FetchSettle(ok)

Spec == Init /\ [][Next]_vars

\* ------------------------------------------- the Session Store by itself
\* The contract of the store for any caller: AuthProvider hands
\* setIsAuthenticated to every consumer (AuthContext.js:21); this
\* specification lets a consumer call it with either value in any ready
\* state, next to boot and navigation.

\* label of a Set call; a Set(false) that directly follows a Set(false) is
\* told apart
SetEvent(value) ==
  IF value THEN "set_true"
  ELSE IF lastEvent \in {"set_false", "set_false_again"}
       THEN "set_false_again" ELSE "set_false"

\* variant: Set(false) flips the flag instead of overwriting it
Set_Toggle(value) ==
  /\ phase = "ready"
  /\ isAuthenticated' = IF value THEN TRUE ELSE ~isAuthenticated
  /\ Commit(hist, idx, isAuthenticated')
  /\ lastEvent' = SetEvent(value)
  /\ UNCHANGED <<freshSession, panelVars>>
  /\ UNCHANGED <<storage, phase, initCount, loginPending, registerPending,
                 sinceLogout, fetchPending>>

\* variant: Set(false) also removes the stored token
Set_SyncsStorage(value) ==
  /\ phase = "ready"
  /\ isAuthenticated' = value
  /\ storage' = IF value THEN storage ELSE Null
  /\ Commit(hist, idx, isAuthenticated')
  /\ lastEvent' = SetEvent(value)
  /\ UNCHANGED <<freshSession, panelVars>>
  /\ UNCHANGED <<phase, initCount, loginPending, registerPending,
                 sinceLogout, fetchPending>>

\* setIsAuthenticated(value) in an event handler, with the re-render of the
\* provider's consumers that follows it
Set(value) ==
  /\ phase = "ready"
  /\ isAuthenticated' = value
  /\ Commit(hist, idx, isAuthenticated')
  /\ lastEvent' = SetEvent(value)
  /\ UNCHANGED <<freshSession, panelVars>>
  /\ UNCHANGED <<storage, phase, initCount, loginPending, registerPending,
                 sinceLogout, fetchPending>>

NextStore ==
  \/ Mount
  \/ Initialize
  \/ \E value \in BOOLEAN : Set(value)
  \/ \E p \in Paths : NavClick(p)
  \/ Back
  \/ Forward

SpecStore == Init /\ [][NextStore]_vars

\* ------------------------------------------------ the team panels alone
\* Chat (messages) and Teams (agents) share one shape: handleSelectTeam sets
\* selectedTeamId and starts a fetch for that team; when a fetch resolves,
\* its response replaces the list, whatever team is selected by then.
\* The session is the one reached by loading "/" with a credential and
\* clicking the panel's link; it does not change here.

OutstandingFetches == fetches["t1"] + fetches["t2"]

InitPanel ==
  /\ storage = <<"tok1">>
  /\ isAuthenticated = TRUE
  /\ phase = "ready"
  /\ initCount = 1
  /\ observed = <<TRUE>>
  /\ panel \in {"/chat", "/teams"}
  /\ hist = <<HomePath, panel>>
  /\ idx = 2
  /\ requested = panel
  /\ reqLen = 2
  /\ outcome = [kind |-> "render", target |-> panel, replace |-> FALSE]
  /\ view = panel
  /\ loginPending = 0
  /\ registerPending = 0
  /\ fetchPending = 0
  /\ sinceLogout = FALSE
  /\ freshSession = FALSE
  /\ lastEvent = "navigate"
  /\ selectedTeamId = NoTeam
  /\ shownFor = NoTeam
  /\ fetches = [t \in TeamIds |-> 0]
  /\ selFailed = FALSE
  /\ messageContent = ""
  /\ sends = [t \in TeamIds |-> 0]
  /\ calls = [h \in ListHandlers |-> 0]
  /\ tokenRead = NoRead
  /\ handlerResult = "none"

\* handleSelectTeam(teamId): setSelectedTeamId(teamId); fetchMessages(teamId)
\* (fetchAgents(teamId) in Teams) up to the await
handleSelectTeam(teamId) ==
  /\ view = panel
  /\ OutstandingFetches < MaxFetches
  /\ selectedTeamId' = teamId
  /\ fetches' = [fetches EXCEPT ![teamId] = @ + 1]
  /\ selFailed' = FALSE
  /\ tokenRead' = <<storage>>
  /\ lastEvent' = "select_team"
  /\ UNCHANGED <<sessionVars, panel, shownFor, messageContent, sends, calls,
                 handlerResult>>

\* fetchMessages / fetchAgents after the await resolved: setMessages(...)
fetchResolved(teamId) ==
  /\ fetches[teamId] > 0
  /\ fetches' = [fetches EXCEPT ![teamId] = @ - 1]
  /\ shownFor' = teamId
  /\ lastEvent' = "list_ok"
  /\ UNCHANGED <<sessionVars, panel, selectedTeamId, selFailed, handlerVars>>

\* fetchMessages / fetchAgents after the await rejected: console.error
fetchRejected(teamId) ==
  /\ fetches[teamId] > 0
  /\ fetches' = [fetches EXCEPT ![teamId] = @ - 1]
  /\ selFailed' = (selFailed \/ teamId = selectedTeamId)
  /\ lastEvent' = "list_fail"
  /\ UNCHANGED <<sessionVars, panel, selectedTeamId, shownFor, handlerVars>>

NextPanel ==
  \/ \E teamId \in TeamIds : handleSelectTeam(teamId)
  \/ \E teamId \in TeamIds : fetchResolved(teamId)
  \/ \E teamId \in TeamIds : fetchRejected(teamId)

SpecPanel == InitPanel /\ [][NextPanel]_vars

\* ------------------------------------------------ the mutating handlers
\* Chat.handleSendMessage, Models.handleAddApiKey, Teams.handleCreateTeam and
\* Register.handleSubmit, each split at its await, next to the list fetches
\* they start and to Navbar.handleLogout.  A continuation runs when its
\* request settles, whether or not its view is still on screen.
\* The session is the one reached by loading "/" and clicking the link of
\* the view: with a credential for Chat, Teams and Models, without one for
\* Register.  The fetches of the mount effects have settled.

OutstandingSends == sends["t1"] + sends["t2"]

OutstandingCalls ==
  OutstandingSends + calls["handleAddApiKey"] + calls["handleCreateTeam"]
    + registerPending

\* the catch block the mutating handlers share:
\*   console.error(...); alert('Failed ...: ' + error.response.data.message)
\* For an error without response, error.response is undefined and reading
\* .data throws a TypeError before alert is called: the async handler's
\* promise rejects.
CatchBlock(error) ==
  IF error = "no_response" THEN "raised" ELSE "reported"

InitHandlers ==
  /\ view \in {"/chat", "/teams", "/models", RegisterPath}
  /\ storage = IF view = RegisterPath THEN Null ELSE <<"tok1">>
  /\ isAuthenticated = (view # RegisterPath)
  /\ phase = "ready"
  /\ initCount = 1
  /\ observed = <<isAuthenticated>>
  /\ panel = IF view \in {"/chat", "/teams"} THEN view ELSE "none"
  /\ hist = <<HomePath, view>>
  /\ idx = 2
  /\ requested = view
  /\ reqLen = 2
  /\ outcome = [kind |-> "render", target |-> view, replace |-> FALSE]
  /\ loginPending = 0
  /\ registerPending = 0
  /\ fetchPending = 0
  /\ sinceLogout = FALSE
  /\ freshSession = (view = RegisterPath)
  /\ lastEvent = "navigate"
  /\ selectedTeamId = NoTeam
  /\ shownFor = NoTeam
  /\ fetches = [t \in TeamIds |-> 0]
  /\ selFailed = FALSE
  /\ messageContent = ""
  /\ sends = [t \in TeamIds |-> 0]
  /\ calls = [h \in ListHandlers |-> 0]
  /\ tokenRead = NoRead
  /\ handlerResult = "none"

\* the message input's onChange: setMessageContent(event.target.value); the
\* input is rendered only while a team is selected
setMessageContent(text) ==
  /\ view = "/chat"
  /\ selectedTeamId # NoTeam
  /\ text # messageContent
  /\ messageContent' = text
  /\ lastEvent' = "type"
  /\ UNCHANGED <<sessionVars, panel, selectedTeamId, shownFor, fetches,
                 selFailed, sends, calls, tokenRead, handlerResult>>

\* variant: no check of the message content before the request
handleSendMessage_NoGuard ==
  /\ view = "/chat"
  /\ selectedTeamId # NoTeam
  /\ OutstandingCalls < MaxCalls
  /\ OutstandingFetches < MaxFetches
  /\ sends' = [sends EXCEPT ![selectedTeamId] = @ + 1]
  /\ tokenRead' = <<storage>>
  /\ lastEvent' = "send_submit"
  /\ UNCHANGED <<sessionVars, panel, selectedTeamId, shownFor, fetches,
                 selFailed, messageContent, calls, handlerResult>>

\* Chat.handleSendMessage up to its await: if (!messageContent) return;
\* token = getItem('token'); axios.post(`/chat/${selectedTeamId}/messages`)
\* The Send button is rendered only while a team is selected.
handleSendMessage ==
  /\ view = "/chat"
  /\ selectedTeamId # NoTeam
  /\ IF messageContent = ""
       THEN /\ lastEvent' = "send_empty"
            /\ handlerResult' = "returned"
            /\ UNCHANGED <<sends, tokenRead>>
       ELSE /\ OutstandingCalls < MaxCalls
            /\ OutstandingFetches < MaxFetches
            /\ sends' = [sends EXCEPT ![selectedTeamId] = @ + 1]
            /\ tokenRead' = <<storage>>
            /\ lastEvent' = "send_submit"
            /\ UNCHANGED handlerResult
  /\ UNCHANGED <<sessionVars, panel, selectedTeamId, shownFor, fetches,
                 selFailed, messageContent, calls>>

\* handleSendMessage after the await resolved: setMessageContent('');
\* fetchMessages(selectedTeamId) with the team of the handler's closure,
\* which reads the token again and starts the get
sendResolved(teamId) ==
  /\ sends[teamId] > 0
  /\ sends' = [sends EXCEPT ![teamId] = @ - 1]
  /\ messageContent' = ""
  /\ tokenRead' = <<storage>>
  /\ fetches' = [fetches EXCEPT ![teamId] = @ + 1]
  /\ handlerResult' = "returned"
  /\ lastEvent' = "send_ok"
  /\ UNCHANGED <<sessionVars, panel, selectedTeamId, shownFor, selFailed,
                 calls>>

\* handleSendMessage after the await rejected: the catch block
sendRejected(teamId, error) ==
  /\ sends[teamId] > 0
  /\ sends' = [sends EXCEPT ![teamId] = @ - 1]
  /\ handlerResult' = CatchBlock(error)
  /\ lastEvent' = "send_fail"
  /\ UNCHANGED <<sessionVars, panel, selectedTeamId, shownFor, fetches,
                 selFailed, messageContent, calls, tokenRead>>

\* Models.handleAddApiKey up to its await: token = getItem('token');
\* axios.post('/models/api-keys')
handleAddApiKey ==
  /\ view = "/models"
  /\ OutstandingCalls < MaxCalls
  /\ InFlight < MaxPending
  /\ calls' = [calls EXCEPT !["handleAddApiKey"] = @ + 1]
  /\ tokenRead' = <<storage>>
  /\ lastEvent' = "add_key_submit"
  /\ UNCHANGED <<sessionVars, panel, selectedTeamId, shownFor, fetches,
                 selFailed, messageContent, sends, handlerResult>>

\* handleAddApiKey after the await resolved: alert, clear the form,
\* fetchApiKeys(), which reads the token again and starts the get
addApiKeyResolved ==
  /\ calls["handleAddApiKey"] > 0
  /\ calls' = [calls EXCEPT !["handleAddApiKey"] = @ - 1]
  /\ tokenRead' = <<storage>>
  /\ fetchPending' = fetchPending + 1
  /\ handlerResult' = "returned"
  /\ lastEvent' = "add_key_ok"
  /\ UNCHANGED <<storage, isAuthenticated, phase, initCount, observed, hist,
                 idx, requested, reqLen, outcome, view, loginPending,
                 registerPending, sinceLogout, freshSession>>
  /\ UNCHANGED <<panel, selectedTeamId, shownFor, fetches, selFailed,
                 messageContent, sends>>

\* handleAddApiKey after the await rejected: the catch block
addApiKeyRejected(error) ==
  /\ calls["handleAddApiKey"] > 0
  /\ calls' = [calls EXCEPT !["handleAddApiKey"] = @ - 1]
  /\ handlerResult' = CatchBlock(error)
  /\ lastEvent' = "add_key_fail"
  /\ UNCHANGED <<sessionVars, panel, selectedTeamId, shownFor, fetches,
                 selFailed, messageContent, sends, tokenRead>>

\* Teams.handleCreateTeam up to its await: token = getItem('token');
\* axios.post('/teams')
handleCreateTeam ==
  /\ view = "/teams"
  /\ OutstandingCalls < MaxCalls
  /\ InFlight < MaxPending
  /\ calls' = [calls EXCEPT !["handleCreateTeam"] = @ + 1]
  /\ tokenRead' = <<storage>>
  /\ lastEvent' = "create_team_submit"
  /\ UNCHANGED <<sessionVars, panel, selectedTeamId, shownFor, fetches,
                 selFailed, messageContent, sends, handlerResult>>

\* handleCreateTeam after the await resolved: alert, clear the form,
\* fetchTeams(), which reads the token again and starts the get
createTeamResolved ==
  /\ calls["handleCreateTeam"] > 0
  /\ calls' = [calls EXCEPT !["handleCreateTeam"] = @ - 1]
  /\ tokenRead' = <<storage>>
  /\ fetchPending' = fetchPending + 1
  /\ handlerResult' = "returned"
  /\ lastEvent' = "create_team_ok"
  /\ UNCHANGED <<storage, isAuthenticated, phase, initCount, observed, hist,
                 idx, requested, reqLen, outcome, view, loginPending,
                 registerPending, sinceLogout, freshSession>>
  /\ UNCHANGED <<panel, selectedTeamId, shownFor, fetches, selFailed,
                 messageContent, sends>>

\* handleCreateTeam after the await rejected: the catch block
createTeamRejected(error) ==
  /\ calls["handleCreateTeam"] > 0
  /\ calls' = [calls EXCEPT !["handleCreateTeam"] = @ - 1]
  /\ handlerResult' = CatchBlock(error)
  /\ lastEvent' = "create_team_fail"
  /\ UNCHANGED <<sessionVars, panel, selectedTeamId, shownFor, fetches,
                 selFailed, messageContent, sends, tokenRead>>

\* Register.handleSubmit after the await rejected, with the error it caught:
\* the catch block
RegisterRejected(error) ==
  /\ phase = "ready"
  /\ registerPending > 0
  /\ registerPending' = registerPending - 1
  /\ handlerResult' = CatchBlock(error)
  /\ lastEvent' = "register_rejected"
  /\ UNCHANGED <<storage, isAuthenticated, phase, initCount, observed, hist,
                 idx, requested, reqLen, outcome, view, loginPending,
                 fetchPending, sinceLogout, freshSession>>
  /\ UNCHANGED <<panel, selectedTeamId, shownFor, fetches, selFailed,
                 messageContent, sends, calls, tokenRead>>

NextHandlers ==
  \/ \E teamId \in TeamIds : handleSelectTeam(teamId)
  \/ \E teamId \in TeamIds : fetchResolved(teamId)
  \/ \E teamId \in TeamIds : fetchRejected(teamId)
  \/ \E text \in Contents : setMessageContent(text)
  \/ handleSendMessage
  \/ \E teamId \in TeamIds : sendResolved(teamId)
  \/ \E teamId \in TeamIds, error \in Errors : sendRejected(teamId, error)
  \/ handleAddApiKey
  \/ addApiKeyResolved
  \/ \E error \in Errors : addApiKeyRejected(error)
  \/ handleCreateTeam
  \/ createTeamResolved
  \/ \E error \in Errors : createTeamRejected(error)
  \/ \E ok \in BOOLEAN : FetchSettle(ok)
  \/ RegisterSubmit
  \/ RegisterSuccess
  \/ \E error \in Errors : RegisterRejected(error)
  \/ Logout

SpecHandlers == InitHandlers /\ [][NextHandlers]_vars

TypeOK ==
  /\ storage \in StoredValues
  /\ isAuthenticated \in BOOLEAN
  /\ phase \in {"unmounted", "rendered", "ready"}
  /\ idx \in 1..Len(hist)
  /\ Len(hist) <= MaxHist
  /\ loginPending \in 0..MaxPending
  /\ registerPending \in 0..MaxPending
  /\ fetchPending \in 0..MaxPending

\* ================================================================ claims

\* "storage holds a non-empty credential", written out on the stored value
StoresCredential == \E t \in IssuedTokens : storage = <<t>>

\* C1: once boot has completed, after every event isAuthenticated is true
\* exactly when durable storage holds a non-empty credential under 'token'.
C1_FlagMatchesStorage ==
  phase = "ready" => (isAuthenticated <=> StoresCredential)

\* C2: after the login handler has completed for a successful request, the
\* credential is stored and the flag is true.
C2_LoginSetsFlag ==
  lastEvent = "login_ok" => (StoresCredential /\ isAuthenticated)

\* C3: Initialize runs at most once, and whenever a consumer has read the
\* flag in a render, Initialize has already run.
C3_InitBeforeReads ==
  /\ initCount <= 1
  /\ observed # <<>> => initCount = 1

\* C4: right after Initialize, the flag (and what the consumers read) equals
\* "storage holds a non-empty credential", for every content of storage.
C4_InitDerivesFlag ==
  lastEvent = "initialize" =>
    /\ isAuthenticated = StoresCredential
    /\ observed = <<StoresCredential>>

C4_Witness ==
  lastEvent = "initialize" /\ storage = <<"">> /\ ~isAuthenticated

\* C5: whichever guarded view is requested, the guard's outcome is that
\* view's subtree when the flag is true and the login redirect when false.
C5_Guarding ==
  (phase # "unmounted" /\ requested \in GuardedPaths) =>
    IF isAuthenticated
      THEN /\ outcome = [kind |-> "render", target |-> requested,
                         replace |-> FALSE]
           /\ view = requested
      ELSE /\ outcome.kind = "redirect"
           /\ outcome.target = LoginPath
           /\ view = LoginPath

C5_Witness ==
  requested = "/chat" /\ isAuthenticated /\ view = "/chat"

\* C6: after a logout (and until a login succeeds) no guarded view is on
\* screen, and every request for one, also through back navigation, ends in
\* the login redirect.
C6_LogoutRevokes ==
  sinceLogout =>
    /\ view \notin GuardedPaths
    /\ requested \in GuardedPaths =>
         (outcome.kind = "redirect" /\ view = LoginPath)

C6_Witness ==
  /\ sinceLogout
  /\ lastEvent = "back"
  /\ requested \in GuardedPaths
  /\ view = LoginPath

\* C7: the step that handles a failed login leaves the flag, the stored
\* credential, the history and the view as they were; a login view stays.
C7_FailedLoginNoChange ==
  [][lastEvent' = "login_fail" =>
       /\ isAuthenticated' = isAuthenticated
       /\ storage' = storage
       /\ hist' = hist /\ idx' = idx
       /\ view' = view
       /\ (view = LoginPath => view' = LoginPath)]_vars

C7_Witness ==
  lastEvent = "login_fail" /\ view = LoginPath /\ StoresCredential

\* C8: when handleLogout has completed, the flag is false, the consumers
\* have read false, and storage holds no credential.
C8_LogoutClearsBoth ==
  lastEvent = "logout" =>
    (~isAuthenticated /\ observed = <<FALSE>> /\ storage = Null)

C8_Witness ==
  lastEvent = "logout" /\ storage = Null /\ ~isAuthenticated

\* C9: a denial leaves the history as long as it was when the guarded view
\* was requested, with the login path in the current entry; one back
\* navigation after it moves one entry back and does not show the denied view.
C9_DenialReplaces ==
  [][/\ outcome'.kind = "redirect" =>
          (Len(hist') = reqLen' /\ hist'[idx'] = LoginPath)
     /\ (outcome.kind = "redirect" /\ lastEvent' = "back") =>
          (idx' = idx - 1 /\ view' # requested /\ hist'[idx'] # requested)
    ]_vars

C9_Witness ==
  /\ lastEvent \in {"back", "forward"}
  /\ outcome.kind = "redirect"
  /\ requested \in GuardedPaths
  /\ idx > 1
  /\ Len(hist) = reqLen

\* C10: once boot has completed, a step changes the flag only if it is a
\* successful login taking it to true or a logout taking it to false.
C10_OnlyTwoTransitions ==
  [][(phase = "ready" /\ isAuthenticated' # isAuthenticated) =>
       \/ (lastEvent' = "login_ok" /\ isAuthenticated')
       \/ (lastEvent' = "logout" /\ ~isAuthenticated')]_vars

C10_Witness ==
  /\ lastEvent = "logout"
  /\ initCount = 1
  /\ ~isAuthenticated
  /\ registerPending > 0

\* C11: in a session loaded without a stored credential, until a login
\* succeeds, the flag is false, no guarded view is on screen and every
\* request for a guarded view ends in the login redirect.
C11_FreshLoadRedirects ==
  freshSession =>
    /\ ~isAuthenticated
    /\ view \notin GuardedPaths
    /\ requested \in GuardedPaths =>
         (outcome.kind = "redirect" /\ view = LoginPath)

C11_Witness ==
  /\ freshSession
  /\ requested = "/models"
  /\ outcome.kind = "redirect"
  /\ view = LoginPath

\* C12: once the tree is rendered, after every event the value the consumers
\* hold is the current flag; no later event starts from a stale value.
C12_NoStaleRead ==
  phase # "unmounted" => observed = <<isAuthenticated>>

C12_Witness ==
  lastEvent = "initialize" /\ isAuthenticated /\ observed = <<TRUE>>

C14_StorageFrame ==
  [][storage' # storage =>
       \/ (lastEvent' = "login_ok" /\ StoresCredential')
       \/ (lastEvent' = "logout" /\ storage' = Null)]_vars

C14_Witness ==
  lastEvent = "fetch_fail" /\ StoresCredential

\* C18: the Navbar shows Home always, Models/Teams/Chat exactly for a true
\* flag and Login/Register exactly for a false flag; a link click goes only
\* to a link of the current status, and a logout starts from a true flag.
C18_NavbarByStatus ==
  [][/\ \A f \in BOOLEAN :
          /\ HomePath \in NavbarLinks(f)
          /\ (GuardedPaths \subseteq NavbarLinks(f)) = f
          /\ (GuardedPaths \cap NavbarLinks(f) # {}) = f
          /\ ({LoginPath, RegisterPath} \subseteq NavbarLinks(f)) = ~f
          /\ ({LoginPath, RegisterPath} \cap NavbarLinks(f) # {}) = ~f
     /\ lastEvent' = "navigate" =>
          /\ requested' \in GuardedPaths => isAuthenticated
          /\ requested' \in {LoginPath, RegisterPath} => ~isAuthenticated
     /\ lastEvent' = "logout" => (isAuthenticated /\ observed = <<TRUE>>)
    ]_vars

C18_Witness ==
  lastEvent = "navigate" /\ requested = "/teams" /\ isAuthenticated

\* C20: when the application is loaded on a guarded path with a non-empty
\* credential in storage, the view on screen once boot has completed is that
\* guarded view.
C20_DeepLinkSettles ==
  [][(phase = "rendered" /\ phase' = "ready"
        /\ requested \in GuardedPaths /\ StoresCredential) =>
       view' = requested]_vars

\* C16: a Set(false) that directly follows a Set(false) finds the flag false
\* and leaves it false, and changes neither storage, the view on screen nor
\* the history.
C16_SetFalseIdempotent ==
  [][lastEvent' = "set_false_again" =>
       /\ ~isAuthenticated /\ ~isAuthenticated'
       /\ storage' = storage
       /\ view' = view
       /\ hist' = hist /\ idx' = idx]_vars

C16_Witness ==
  lastEvent = "set_false_again" /\ view = LoginPath /\ StoresCredential

\* C17: a Set call, with either argument and any storage content, leaves
\* durable storage as it was.
C17_SetLeavesStorage ==
  [][lastEvent' \in {"set_true", "set_false", "set_false_again"} =>
       storage' = storage]_vars

C17_Witness ==
  lastEvent = "set_true" /\ isAuthenticated /\ storage = Null

\* C19: once no fetch is outstanding, and unless a fetch for the selected
\* team failed, the list the panel shows is the one returned for the team
\* selected last, whatever order the responses arrived in.
C19_ShowsSelectedTeam ==
  (OutstandingFetches = 0 /\ selectedTeamId # NoTeam /\ ~selFailed) =>
    shownFor = selectedTeamId

\* C24: every link the Navbar shows for the flag value it was rendered with
\* targets a path that App's route table matches, and every link it shows
\* only for a true flag targets a path behind PrivateRoute.
C24_LinksAreRoutes ==
  phase = "ready" =>
    \A p \in NavbarLinks(observed[1]) :
      /\ Routes(p, observed[1]).kind # "nomatch"
      /\ (observed[1] /\ p \notin NavbarLinks(FALSE)) => p \in GuardedPaths

\* C21: every time a panel read the token to build a request, the follow-up
\* fetch of a mutating handler included, the value it read from storage was
\* a non-empty credential, under any interleaving with a logout.
C21_ReadsCredential ==
  tokenRead # NoRead => \E t \in IssuedTokens : tokenRead = <<(<<t>>)>>

\* the events that end a mutating handler call whose request failed
FailEvents ==
  {"send_fail", "add_key_fail", "create_team_fail", "register_rejected"}

\* C22: when the request of a mutating handler of Register, Models, Teams or
\* Chat failed, with or without a response from the backend, the handler
\* call ended by reporting the failure and did not raise an error itself.
C22_FailureReported ==
  lastEvent \in FailEvents => handlerResult = "reported"

\* C23: handleSendMessage with empty content starts no request and leaves
\* the message list, the selected team and the input as they were; with
\* content it starts the send and touches neither the input nor the list
\* fetches; the input is cleared and the messages are re-fetched exactly in
\* the step where the send succeeded; a failed send leaves the input and the
\* list fetches as they were.
C23_SendMessage ==
  [][/\ (lastEvent' \in {"send_empty", "send_submit"}) =>
          /\ (lastEvent' = "send_empty") = (messageContent = "")
          /\ messageContent' = messageContent
          /\ selectedTeamId' = selectedTeamId
          /\ shownFor' = shownFor
          /\ fetches' = fetches
     /\ lastEvent' = "send_empty" =>
          /\ sends' = sends
          /\ tokenRead' = tokenRead
     /\ lastEvent' = "send_submit" =>
          sends' = [sends EXCEPT ![selectedTeamId] = @ + 1]
     /\ lastEvent' = "send_ok" =>
          /\ messageContent' = ""
          /\ OutstandingSends' = OutstandingSends - 1
          /\ \E t \in TeamIds : fetches' = [fetches EXCEPT ![t] = @ + 1]
     /\ lastEvent' = "send_fail" =>
          /\ messageContent' = messageContent
          /\ fetches' = fetches
     /\ (messageContent # "" /\ messageContent' = "") =>
          lastEvent' \in {"send_ok", "type"}
    ]_vars

C23_Witness ==
  /\ lastEvent = "send_empty"
  /\ messageContent = ""
  /\ shownFor = selectedTeamId
  /\ selectedTeamId # NoTeam
  /\ OutstandingFetches = 0
====
